---- MODULE Spec2Model ----
(***************************************************************************)
(* A model of the mcp23x17 driver (src/src/lib.rs): one Expander handle    *)
(* owning a mutex-guarded SPI device, the pin views it hands out, and the  *)
(* threads that call read_value / set_value / output_byte / input_byte /   *)
(* Debug::fmt on them.  The chip behind the SPI device is a register file  *)
(* that answers the 3-byte MCP23S17 protocol; every transport call may     *)
(* fail.                                                                   *)
(***************************************************************************)
EXTENDS Integers, Sequences, FiniteSets, TLC

\* ------------------------------------------------------------------ bounds
\* total number of calls the threads make on the handle and its views
MaxCalls == 2
\* total number of transport calls (open, configure, write, transfer) that fail
MaxFaults == 1

\* ------------------------------------------------------- program constants
IODIRA == 0
IODIRB == 1
GPPUB == 13
GPIOA == 18
GPIOB == 19
HARDWARE_ADDRESS == 0

\* ---------------------------------------------------------- u8 arithmetic
Byte == 0..255

RECURSIVE Pow2(_)
Pow2(n) == IF n = 0 THEN 1 ELSE 2 * Pow2(n - 1)

\* bit i (0..7) of byte b
Bit(b, i) == (b \div Pow2(i)) % 2

\* u8 & u8
BitAnd(a, b) ==
    LET f[i \in 0..8] == IF i = 8 THEN 0
                         ELSE Bit(a, i) * Bit(b, i) * Pow2(i) + f[i + 1]
    IN  f[0]

\* u8 | u8
BitOr(a, b) ==
    LET f[i \in 0..8] == IF i = 8 THEN 0
                         ELSE (IF Bit(a, i) + Bit(b, i) > 0 THEN Pow2(i) ELSE 0) + f[i + 1]
    IN  f[0]

\* !u8
BitNot(a) == 255 - a

\* u8 << n for a shift amount below the width
Shl(a, n) == (a * Pow2(n)) % 256

\* `1 << self.num` with overflow checks on panics for num >= 8
ShiftOverflows(num) == num >= 8

\* `1 << self.num` without overflow checks: the shift amount is masked to 3 bits
Mask(num) == Shl(1, num % 8)

\* ------------------------------------------------------- command encoder
write_cmd == BitOr(BitOr(64, Shl(HARDWARE_ADDRESS, 1)), 0)

read_cmd == BitOr(BitOr(64, Shl(HARDWARE_ADDRESS, 1)), 1)

\* the two data registers confused with the direction registers
addressOfDirection(label) == IF label = "Out" THEN IODIRA ELSE IODIRB

\* PortLabel::address
address(label) == IF label = "Out" THEN GPIOA ELSE GPIOB

\* ------------------------------------------------------------------ state
VARIABLES
    ctor,      \* position of Expander::new: "open", "configure", "init" (at
               \* the next initialization write), "ok" (handle returned), "err"
    regs,      \* the chip's registers, by address
    bus,       \* every transaction issued on the SPI device, in order
    lock,      \* holder of Mutex<Spidev>: a thread, or "free"
    poisoned,  \* the mutex's poison flag (a holder panicked)
    checks,    \* whether `<<` is compiled with overflow checks: "unknown"
               \* until the first oversized shift decides it, then "on"/"off"
    pc,        \* pc[t]: position of thread t in its current call
    hist,      \* hist[t]: the calls thread t has made, the last one current
    left,      \* how many more calls the threads are going to make
    pins       \* the pin numbers the application has views for

vars == <<ctor, regs, bus, lock, poisoned, checks, pc, hist, left, pins>>

\* the threads sharing the handle (clones of the Expander and the views made from it)
Threads == {"A", "B"}

Registers == {IODIRA, IODIRB, GPPUB, GPIOA, GPIOB}

\* pin numbers the threads ask views for: two real bits and one index past 7
ViewNums == {0, 1, 9}

\* the levels on port B's input lines
InLevels == {165}

\* what the chip may hold when the driver opens it: the power-on defaults, or
\* what an earlier run left in the output and direction registers
Powered ==
    {[r \in Registers |->
         IF r = GPIOB THEN inp
         ELSE IF r \in {IODIRA, IODIRB} THEN dir
         ELSE IF r = GPIOA THEN out ELSE 0] : dir \in {0, 255}, out \in {0, 165}, inp \in InLevels}

\* who issued a transaction: the constructor, or call k of thread t
NewId == <<"new", 0>>

\* ------------------------------------------------------------ the device
\* number of transport calls that have failed so far
Faults ==
    Cardinality({i \in 1..Len(bus) : ~bus[i].ok})
    + (IF ctor = "err" /\ (bus = <<>> \/ bus[Len(bus)].ok) THEN 1 ELSE 0)

\* outcomes a transport call can have
Outcomes == IF Faults < MaxFaults THEN {TRUE, FALSE} ELSE {TRUE}

\* the chip's reaction to a 3-byte frame that reached it: a write command
\* stores the data byte in the addressed register
ChipWrite(r, tx) ==
    IF tx[1] = 64 /\ tx[2] \in DOMAIN r THEN [r EXCEPT ![tx[2]] = tx[3]] ELSE r

\* the three bytes the chip shifts out during a duplex frame: the register's
\* contents in the third byte of a read command
ChipReply(r, tx) ==
    <<0, 0, IF tx[1] = 65 /\ tx[2] \in DOMAIN r THEN r[tx[2]] ELSE 0>>

\* write_byte: one 3-byte write transaction
write_byte(addr, byte, ok, who) ==
    LET tx_buf == <<write_cmd, addr, byte>> IN
    /\ bus' = Append(bus, [rw |-> "write", tx |-> tx_buf, rx |-> <<>>,
                           ok |-> ok, by |-> who])
    /\ regs' = IF ok THEN ChipWrite(regs, tx_buf) ELSE regs

\* read_byte: one 3-byte duplex transaction; the value is rx_buf[2]
read_tx(addr) == <<read_cmd, addr, 0>>

\* a read_byte that returns the first byte of the reply instead of the third
read_result_first(addr) == ChipReply(regs, read_tx(addr))[1]

read_result(addr) == ChipReply(regs, read_tx(addr))[3]

read_byte(addr, ok, who) ==
    /\ bus' = Append(bus, [rw |-> "read", tx |-> read_tx(addr),
                           rx |-> IF ok THEN ChipReply(regs, read_tx(addr)) ELSE <<>>,
                           ok |-> ok, by |-> who])
    /\ regs' = regs

\* write_port / read_port
write_port(label, byte, ok, who) == write_byte(address(label), byte, ok, who)

read_port(label, ok, who) == read_byte(address(label), ok, who)

\* ------------------------------------------------------------ Expander::new
\* a constructor that sets the directions before it clears port A
InitWritesDirFirst == << <<IODIRA, 0>>, <<GPIOA, 0>>, <<IODIRB, 255>>, <<GPPUB, 255>> >>

\* a constructor that never clears port A's data register
InitWritesNoClear == << <<IODIRA, 0>>, <<IODIRA, 0>>, <<IODIRB, 255>>, <<GPPUB, 255>> >>

\* the four initialization writes, in program order
InitWrites == << <<GPIOA, 0>>, <<IODIRA, 0>>, <<IODIRB, 255>>, <<GPPUB, 255>> >>

Init ==
    /\ ctor = "open"
    /\ regs \in Powered
    /\ bus = <<>>
    /\ lock = "free"
    /\ poisoned = FALSE
    /\ checks = "unknown"
    /\ pc = [t \in Threads |-> "idle"]
    /\ hist = [t \in Threads |-> <<>>]
    /\ left = MaxCalls
    /\ pins = ViewNums

\* Spidev::open(device)?
NewOpen ==
    /\ ctor = "open"
    /\ \E ok \in Outcomes : ctor' = IF ok THEN "configure" ELSE "err"
    /\ UNCHANGED <<regs, bus, lock, poisoned, checks, pc, hist, left, pins>>

\* spi.configure(...)?
NewConfigure ==
    /\ ctor = "configure"
    /\ \E ok \in Outcomes : ctor' = IF ok THEN "init" ELSE "err"
    /\ UNCHANGED <<regs, bus, lock, poisoned, checks, pc, hist, left, pins>>

\* a constructor that drops the `?`: a failed write is ignored
AfterWriteIgnoreErr(k, ok) == IF k = 4 THEN "ok" ELSE "init"

\* where Expander::new goes after its k-th write: `?` returns the error, the
\* fourth success returns the handle
AfterWrite(k, ok) ==
    IF ~ok THEN "err" ELSE IF k = Len(InitWrites) THEN "ok" ELSE "init"

\* write_byte(&mut spi, reg, value)? for the next of the four writes; after the
\* fourth, Ok(Expander { .. })
NewWrite ==
    /\ ctor = "init"
    /\ LET k == Len(bus) + 1 IN
       \E ok \in Outcomes :
          /\ write_byte(InitWrites[k][1], InitWrites[k][2], ok, NewId)
          /\ ctor' = AfterWrite(k, ok)
    /\ UNCHANGED <<lock, poisoned, checks, pc, hist, left, pins>>

New == NewOpen \/ NewConfigure \/ NewWrite

\* ------------------------------------------------------------ pin views
\* Expander::output(pin_num): a Pin on port Out; no range check, no bus traffic
output(pin_num) == [kind |-> "Output", label |-> "Out", num |-> pin_num]

\* Expander::input(pin_num): a Pin on port In; no range check, no bus traffic
input(pin_num) == [kind |-> "Input", label |-> "In", num |-> pin_num]

\* a conversion that binds the companion to port In, as Expander::input does
into_input_of_port_in(out) ==
    [kind |-> "InputOfOutput", label |-> "In", num |-> out.num]

\* the conversion of the implementation with concrete Input / Output structs:
\* the companion Input view of an Output view (kind "InputOfOutput": an Input
\* made from an Output) shares its handle, port and bit
into_input(out) == [kind |-> "InputOfOutput", label |-> out.label, num |-> out.num]

\* ------------------------------------------------------------ calls
\* the record of a call as it starts
NewCall(op, kind, label, num, value) ==
    [op |-> op, view |-> kind, label |-> label, num |-> num, value |-> value,
     did_read |-> -1, to_write |-> -1, in_byte |-> <<>>,
     status |-> "running", result |-> <<>>]

\* the current call of thread t and its identity on the bus
Cur(t) == hist[t][Len(hist[t])]

CurId(t) == <<t, Len(hist[t])>>

\* hist with fields of the current call of t replaced
SetCur(t, rec) == [hist EXCEPT ![t][Len(hist[t])] = rec]

CanCall(t) == ctor = "ok" /\ pc[t] = "idle" /\ left > 0

\* the builds in which an oversized `1 << num` panics / wraps
MayPanic(num) == ShiftOverflows(num) /\ checks \in {"unknown", "on"}

MayWrap(num) == ShiftOverflows(num) /\ checks \in {"unknown", "off"}

\* Pin::read_value, line 129: the mask is computed before the lock is taken
ReadValueBegin(t, pin) ==
    /\ CanCall(t)
    /\ LET c == NewCall("read_value", pin.kind, pin.label, pin.num, "None") IN
       \/ /\ ~ShiftOverflows(pin.num) \/ MayWrap(pin.num)
          /\ checks' = IF ShiftOverflows(pin.num) THEN "off" ELSE checks
          /\ hist' = [hist EXCEPT ![t] = Append(@, c)]
          /\ pc' = [pc EXCEPT ![t] = "lock"]
       \/ /\ MayPanic(pin.num)
          /\ checks' = "on"
          /\ hist' = [hist EXCEPT ![t] = Append(@, [c EXCEPT !.status = "panic"])]
          /\ pc' = [pc EXCEPT ![t] = "panicked"]
    /\ left' = left - 1
    /\ UNCHANGED <<ctor, regs, bus, lock, poisoned, pins>>

\* Pin::set_value(value), entered: only an Output is a Writer
SetValueBegin(t, pin, v) ==
    /\ CanCall(t) /\ pin.kind = "Output"
    /\ hist' = [hist EXCEPT ![t] =
                   Append(@, NewCall("set_value", pin.kind, pin.label, pin.num, v))]
    /\ pc' = [pc EXCEPT ![t] = "lock"]
    /\ left' = left - 1
    /\ UNCHANGED <<ctor, regs, bus, lock, poisoned, checks, pins>>

\* Pin::set_low / Pin::set_high: self.set_value(IoValue::Low / High)
SetLow(t, pin) == SetValueBegin(t, pin, "Low")

SetHigh(t, pin) == SetValueBegin(t, pin, "High")

\* Expander::output_byte / input_byte / Debug::fmt, entered
HandleBegin(t, op, label) ==
    /\ CanCall(t)
    /\ hist' = [hist EXCEPT ![t] = Append(@, NewCall(op, "Expander", label, 0, "None"))]
    /\ pc' = [pc EXCEPT ![t] = "lock"]
    /\ left' = left - 1
    /\ UNCHANGED <<ctor, regs, bus, lock, poisoned, checks, pins>>

OutputByteBegin(t) == HandleBegin(t, "output_byte", "Out")

InputByteBegin(t) == HandleBegin(t, "input_byte", "In")

FmtBegin(t) == HandleBegin(t, "fmt", "None")

\* Reader::read_value on the companion Input view of an Output view
CompanionReadValueBegin(t, out) == ReadValueBegin(t, into_input(out))

\* a lock that does not exclude: the guard is handed out while another is live
AcquireNoWait(t) ==
    /\ pc[t] = "lock"
    /\ pc' = [pc EXCEPT ![t] = "read"]
    /\ lock' = t
    /\ UNCHANGED <<ctor, regs, bus, poisoned, checks, hist, left, pins>>

\* self.spi.lock().unwrap(): blocks while the mutex is held; panics when the
\* mutex is poisoned (the guard inside the error is dropped again)
Acquire(t) ==
    /\ pc[t] = "lock" /\ lock = "free"
    /\ IF poisoned
       THEN /\ pc' = [pc EXCEPT ![t] = "panicked"]
            /\ hist' = SetCur(t, [Cur(t) EXCEPT !.status = "poison_panic"])
            /\ lock' = lock
       ELSE /\ pc' = [pc EXCEPT ![t] = "read"]
            /\ hist' = hist
            /\ lock' = t
    /\ UNCHANGED <<ctor, regs, bus, poisoned, checks, left, pins>>

\* the end of a call: the MutexGuard is dropped and the result returned
Return(t) ==
    /\ pc[t] = "ret"
    /\ lock' = "free"
    /\ pc' = [pc EXCEPT ![t] = "idle"]
    /\ UNCHANGED <<ctor, regs, bus, poisoned, checks, hist, left, pins>>

\* a read_value that always tests bit 0
LevelOfBitZero(read, num) == IF BitAnd(read, 1) = 0 THEN "Low" ELSE "High"

\* a read_value with the arms of its match exchanged
LevelInverted(read, num) == IF BitAnd(read, Mask(num)) = 0 THEN "High" ELSE "Low"

\* `match read & mask { 0 => Low, _ => High }`
Level(read, num) == IF BitAnd(read, Mask(num)) = 0 THEN "Low" ELSE "High"

\* Pin::read_value, lines 131-135
ReadValueRead(t) ==
    /\ pc[t] = "read" /\ Cur(t).op = "read_value"
    /\ \E ok \in Outcomes :
          /\ read_port(Cur(t).label, ok, CurId(t))
          /\ LET read == read_result(address(Cur(t).label)) IN
             hist' = SetCur(t,
                 IF ok THEN [Cur(t) EXCEPT !.did_read = read, !.status = "ok",
                                           !.result = <<Level(read, Cur(t).num)>>]
                 ELSE [Cur(t) EXCEPT !.status = "err"])
    /\ pc' = [pc EXCEPT ![t] = "ret"]
    /\ UNCHANGED <<ctor, lock, poisoned, checks, left, pins>>

\* a set_value that forgets the byte it read: Low => !mask, High => mask
ToWriteMaskOnly(did_read, num, value) ==
    IF value = "Low" THEN BitNot(Mask(num)) ELSE Mask(num)

\* a set_value with the two arms exchanged: Low sets the bit, High clears it
ToWriteSwapped(did_read, num, value) ==
    IF value = "High" THEN BitAnd(did_read, BitNot(Mask(num)))
    ELSE BitOr(did_read, Mask(num))

\* `match value { Low => did_read & !mask, High => did_read | mask }`
ToWrite(did_read, num, value) ==
    IF value = "Low" THEN BitAnd(did_read, BitNot(Mask(num)))
    ELSE BitOr(did_read, Mask(num))

\* a set_value that writes back whatever it computed
AlwaysWrite(did_read, to_write) == TRUE

\* `if did_read != to_write`
NeedsWrite(did_read, to_write) == did_read # to_write

\* a set_value that swallows the error of its read (`unwrap_or(0)`) and goes on
SetValueReadSwallow(t) ==
    /\ pc[t] = "read" /\ Cur(t).op = "set_value"
    /\ \E ok \in Outcomes :
          /\ read_port(Cur(t).label, ok, CurId(t))
          /\ LET did_read == IF ok THEN read_result(address(Cur(t).label)) ELSE 0
                 to_write == ToWrite(did_read, Cur(t).num % 8, Cur(t).value)
             IN  /\ hist' = SetCur(t, [Cur(t) EXCEPT !.did_read = did_read,
                                                     !.to_write = to_write])
                 /\ pc' = [pc EXCEPT ![t] = "write"]
    /\ UNCHANGED <<ctor, lock, poisoned, checks, left, pins>>

\* Pin::set_value, lines 150-160: the read, the mask and the byte to write.
\* A panic in `1 << self.num` unwinds through the guard: the mutex is
\* released and poisoned.
SetValueRead(t) ==
    /\ pc[t] = "read" /\ Cur(t).op = "set_value"
    /\ \E ok \in Outcomes :
          /\ read_port(Cur(t).label, ok, CurId(t))
          /\ LET did_read == read_result(address(Cur(t).label))
                 to_write == ToWrite(did_read, Cur(t).num, Cur(t).value)
             IN
             \/ /\ ~ok
                /\ hist' = SetCur(t, [Cur(t) EXCEPT !.status = "err"])
                /\ pc' = [pc EXCEPT ![t] = "ret"]
                /\ UNCHANGED <<lock, poisoned, checks>>
             \/ /\ ok /\ MayPanic(Cur(t).num)
                /\ hist' = SetCur(t, [Cur(t) EXCEPT !.did_read = did_read,
                                                    !.status = "panic"])
                /\ pc' = [pc EXCEPT ![t] = "panicked"]
                /\ lock' = "free" /\ poisoned' = TRUE /\ checks' = "on"
             \/ /\ ok /\ (~ShiftOverflows(Cur(t).num) \/ MayWrap(Cur(t).num))
                /\ checks' = IF ShiftOverflows(Cur(t).num) THEN "off" ELSE checks
                /\ UNCHANGED <<lock, poisoned>>
                /\ IF NeedsWrite(did_read, to_write)
                   THEN /\ hist' = SetCur(t, [Cur(t) EXCEPT !.did_read = did_read,
                                                            !.to_write = to_write])
                        /\ pc' = [pc EXCEPT ![t] = "write"]
                   ELSE /\ hist' = SetCur(t, [Cur(t) EXCEPT !.did_read = did_read,
                                                            !.to_write = to_write,
                                                            !.status = "ok"])
                        /\ pc' = [pc EXCEPT ![t] = "ret"]
    /\ UNCHANGED <<ctor, left, pins>>

\* a set_value that tries its write again when the transport fails
SetValueWriteRetry(t) ==
    /\ pc[t] = "write"
    /\ \E ok \in Outcomes :
          /\ write_port(Cur(t).label, Cur(t).to_write, ok, CurId(t))
          /\ hist' = SetCur(t, [Cur(t) EXCEPT !.status = IF ok THEN "ok" ELSE "running"])
          /\ pc' = [pc EXCEPT ![t] = IF ok THEN "ret" ELSE "write"]
    /\ UNCHANGED <<ctor, lock, poisoned, checks, left, pins>>

\* Pin::set_value, line 161: write_port(&mut spi, self.label, to_write)?
SetValueWrite(t) ==
    /\ pc[t] = "write"
    /\ \E ok \in Outcomes :
          /\ write_port(Cur(t).label, Cur(t).to_write, ok, CurId(t))
          /\ hist' = SetCur(t, [Cur(t) EXCEPT !.status = IF ok THEN "ok" ELSE "err"])
    /\ pc' = [pc EXCEPT ![t] = "ret"]
    /\ UNCHANGED <<ctor, lock, poisoned, checks, left, pins>>

\* Expander::output_byte / input_byte: Ok(read_port(spi, label)?)
PortByteRead(t, op) ==
    /\ pc[t] = "read" /\ Cur(t).op = op
    /\ \E ok \in Outcomes :
          /\ read_port(Cur(t).label, ok, CurId(t))
          /\ LET b == read_result(address(Cur(t).label)) IN
             hist' = SetCur(t,
                 IF ok THEN [Cur(t) EXCEPT !.did_read = b, !.status = "ok",
                                           !.result = <<b>>]
                 ELSE [Cur(t) EXCEPT !.status = "err"])
    /\ pc' = [pc EXCEPT ![t] = "ret"]
    /\ UNCHANGED <<ctor, lock, poisoned, checks, left, pins>>

OutputByteRead(t) == PortByteRead(t, "output_byte")

InputByteRead(t) == PortByteRead(t, "input_byte")

\* u8::to_string: the decimal digits, without leading zeros
Digit(d) == <<"0", "1", "2", "3", "4", "5", "6", "7", "8", "9">>[d + 1]

RECURSIVE to_string(_)
to_string(b) == IF b < 10 THEN <<Digit(b)>>
               ELSE Append(to_string(b \div 10), Digit(b % 10))

\* read_port(..).map(|b| b.to_string()).unwrap_or("NONE".to_string())
Shown(ok, b) == IF ok THEN to_string(b) ELSE <<"N", "O", "N", "E">>

\* write!(f, "{{ In: {}, Out: {} }}", in_byte, out_byte)
Format(in_byte, out_byte) ==
    <<"{", " ", "I", "n", ":", " ">> \o in_byte
    \o <<",", " ", "O", "u", "t", ":", " ">> \o out_byte \o <<" ", "}">>

\* a Debug::fmt that gives up when its first read fails (`?` for unwrap_or)
FmtReadInPropagate(t) ==
    /\ pc[t] = "read" /\ Cur(t).op = "fmt"
    /\ \E ok \in Outcomes :
          /\ read_port("In", ok, CurId(t))
          /\ hist' = SetCur(t,
                 IF ok THEN [Cur(t) EXCEPT
                                !.in_byte = Shown(ok, read_result(address("In")))]
                 ELSE [Cur(t) EXCEPT !.status = "err"])
          /\ pc' = [pc EXCEPT ![t] = IF ok THEN "read2" ELSE "ret"]
    /\ UNCHANGED <<ctor, lock, poisoned, checks, left, pins>>

\* Debug::fmt, lines 110-112: port In first
FmtReadIn(t) ==
    /\ pc[t] = "read" /\ Cur(t).op = "fmt"
    /\ \E ok \in Outcomes :
          /\ read_port("In", ok, CurId(t))
          /\ hist' = SetCur(t, [Cur(t) EXCEPT
                                   !.in_byte = Shown(ok, read_result(address("In")))])
    /\ pc' = [pc EXCEPT ![t] = "read2"]
    /\ UNCHANGED <<ctor, lock, poisoned, checks, left, pins>>

\* what the Formatter's sink (the caller's fmt::Write) does with the text
\* write! hands it: take it, return an error, panic, call back into the
\* handle it is printing, or never return for a reason of its own
SinkOutcomes == {"accepts", "refuses", "panics", "reenters", "diverges"}

\* the call a re-entering sink makes on the handle from inside write_str; it
\* stands for any operation of the handle or of a view, each of which starts
\* with the same self.spi.lock()
SinkCall == NewCall("fmt", "Expander", "None", 0, "None")

\* Debug::fmt, lines 113-116: then port Out, and write! into the caller's
\* sink while the guard of line 109 is live: the formatted line, or
\* Err(fmt::Error) when the sink refuses the text; a sink that panics unwinds
\* through the guard, which releases and poisons the mutex; a sink that calls
\* back into the handle arrives, on the thread that holds the guard, at the
\* lock() of that call (std::sync::Mutex is not re-entrant: the second lock()
\* on the holder's thread does not return; were it to panic instead, that is
\* the panicking sink); a sink that never returns keeps the thread inside
\* write_str with the guard live
FmtReadOut(t) ==
    /\ pc[t] = "read2"
    /\ \E ok \in Outcomes, sink \in SinkOutcomes :
          /\ read_port("Out", ok, CurId(t))
          /\ hist' =
                 IF sink = "accepts"
                 THEN SetCur(t, [Cur(t) EXCEPT
                          !.status = "ok",
                          !.result = <<Format(Cur(t).in_byte,
                                              Shown(ok, read_result(address("Out"))))>>])
                 ELSE IF sink = "refuses"
                 THEN SetCur(t, [Cur(t) EXCEPT !.status = "fmt_error"])
                 ELSE IF sink = "panics"
                 THEN SetCur(t, [Cur(t) EXCEPT !.status = "sink_panic"])
                 ELSE IF sink = "reenters"
                 THEN [hist EXCEPT ![t] =
                          Append([@ EXCEPT ![Len(@)].status = "in_sink"], SinkCall)]
                 ELSE SetCur(t, [Cur(t) EXCEPT !.status = "in_sink"])
          /\ pc' = [pc EXCEPT ![t] = CASE sink = "panics" -> "panicked"
                                       [] sink = "reenters" -> "lock"
                                       [] sink = "diverges" -> "sink"
                                       [] OTHER -> "ret"]
          /\ lock' = IF sink = "panics" THEN "free" ELSE lock
          /\ poisoned' = (poisoned \/ sink = "panics")
    /\ UNCHANGED <<ctor, checks, left, pins>>

\* ------------------------------------------------------------ the system
\* the views a thread may call: Readers (both kinds of view) and Writers
Outputs(nums) == {output(n) : n \in nums}

Inputs(nums) == {input(n) : n \in nums}

\* every pin number a specification below draws its views from
AllNums == 0..9

\* a view the application has
Has(pin) == pin.num \in pins

ThreadStep(t) ==
    \/ \E pin \in Outputs(AllNums) \cup Inputs(AllNums) : Has(pin) /\ ReadValueBegin(t, pin)
    \/ \E pin \in Outputs(AllNums), v \in {"Low", "High"} : Has(pin) /\ SetValueBegin(t, pin, v)
    \/ \E pin \in Outputs(AllNums) : Has(pin) /\ SetLow(t, pin)
    \/ \E pin \in Outputs(AllNums) : Has(pin) /\ SetHigh(t, pin)
    \/ OutputByteBegin(t)
    \/ InputByteBegin(t)
    \/ FmtBegin(t)
    \/ Acquire(t)
    \/ ReadValueRead(t)
    \/ SetValueRead(t)
    \/ SetValueWrite(t)
    \/ OutputByteRead(t)
    \/ InputByteRead(t)
    \/ FmtReadIn(t)
    \/ FmtReadOut(t)
    \/ Return(t)

Next == New \/ \E t \in Threads : ThreadStep(t)

Spec == Init /\ [][Next]_vars

\* the same driver, under which the properties of what reaches the chip - the
\* constructor's writes, failed transactions, the registers written - are
\* checked apart from those of the calls' interplay
SpecChip == Init /\ [][Next]_vars

\* ------------------------------------------------- progress
\* the steps of thread t inside a call once it has the lock: each is a
\* transport call, which returns, or the return itself (the last step of a
\* snapshot hands the text to the sink, which need not give control back)
Running(t) ==
    \/ ReadValueRead(t) \/ SetValueRead(t) \/ SetValueWrite(t)
    \/ OutputByteRead(t) \/ InputByteRead(t)
    \/ FmtReadIn(t) \/ FmtReadOut(t) \/ Return(t)

\* ------------------------------------------------- one port, every bit
\* pin numbers of the other specifications: every line of a port, and one past
PortNums == 0..7 \cup {9}

\* bytes port Out may hold once earlier set_value calls have driven its lines
PortBytes == {0, 1, 85, 90, 128, 165, 170, 255}

\* the bus log of a successful Expander::new
NewLog ==
    [k \in 1..Len(InitWrites) |->
        [rw |-> "write", tx |-> <<write_cmd, InitWrites[k][1], InitWrites[k][2]>>,
         rx |-> <<>>, ok |-> TRUE, by |-> NewId]]

\* A handle some time after its construction: port Out holds what earlier
\* set_value calls left there; the call histories start here.
InitAfter(bytes, calls, pinsets) ==
    /\ ctor = "ok"
    /\ regs \in {[r \in Registers |->
                    IF r = GPIOB THEN inp
                    ELSE IF r \in {IODIRB, GPPUB} THEN 255
                    ELSE IF r = GPIOA THEN out ELSE 0] :
                 out \in bytes, inp \in InLevels}
    /\ bus = NewLog
    /\ lock = "free"
    /\ poisoned = FALSE
    /\ checks = "unknown"
    /\ pc = [t \in Threads |-> "idle"]
    /\ hist = [t \in Threads |-> <<>>]
    /\ left = calls
    /\ pins \in pinsets

\* one thread making calls on the handle and on its views of one pin, any of
\* the lines, from a few port bytes
InitPort == InitAfter(PortBytes, MaxCalls, {{n} : n \in PortNums})

NextPort == ThreadStep("A")

SpecPort == InitPort /\ [][NextPort]_vars

\* one thread making a single call, on any line, from every port byte
InitByte == InitAfter(Byte, 1, {PortNums})

NextByte == ThreadStep("A")

SpecByte == InitByte /\ [][NextByte]_vars

\* one thread with an Output view of one pin and the companion Input view made
\* from it
NextCompanion ==
    \/ ThreadStep("A")
    \/ \E out \in Outputs(AllNums) : Has(out) /\ CompanionReadValueBegin("A", out)

SpecCompanion == InitPort /\ [][NextCompanion]_vars

\* two threads sharing a handle some time after its construction, with the
\* views of pin 0 and port Out at 0
InitShared == InitAfter({0}, MaxCalls, {{0}})

NextShared == \E t \in Threads : ThreadStep(t)

SpecShared == InitShared /\ [][NextShared]_vars

\* The shared handle with threads that keep running and a fair lock: a thread
\* inside a call takes its next step, and a thread waiting in lock() gets the
\* mutex if it is free again and again. Nothing is assumed of the Formatter's
\* sink: a thread whose sink has called back into the handle waits in lock()
\* like any other, for a mutex that is never free. Whether and when a thread
\* makes a call is left open.
SpecLive ==
    /\ SpecShared
    /\ \A t \in Threads : WF_vars(Running(t)) /\ SF_vars(Acquire(t))

\* ------------------------------------------------------------ the bus log
\* the calls made so far, each named <<thread, index>>
CallIds == UNION {{<<t, k>> : k \in 1..Len(hist[t])} : t \in Threads}

Call(id) == hist[id[1]][id[2]]

\* the places in the bus log of the transactions a call (or the constructor) issued
TxOf(id) == {i \in 1..Len(bus) : bus[i].by = id}

WritesOf(id) == {i \in TxOf(id) : bus[i].rw = "write"}

ReadsOf(id) == {i \in TxOf(id) : bus[i].rw = "read"}

\* a call has returned to its caller (with Ok or Err; for Debug::fmt the
\* error is fmt::Error)
Returned(id) ==
    /\ Call(id).status \in {"ok", "err", "fmt_error"}
    /\ id[2] < Len(hist[id[1]]) \/ pc[id[1]] = "idle"

\* the transactions issued by calls on the handle, after construction
CallTx == {i \in 1..Len(bus) : bus[i].by # NewId}

\* c's transactions all precede d's
Before(c, d) == \A i \in TxOf(c), j \in TxOf(d) : i < j

\* the level of line `bit` of port Out
OutLevel(bit) == IF Bit(regs[GPIOA], bit) = 1 THEN "High" ELSE "Low"

\* ------------------------------------------------------------ concurrency
\* C1: no update is lost. Every set_value that has succeeded, and after whose
\* start no other set_value has addressed the same line, finds its line at
\* the level it asked for - whatever the other threads did to other lines
\* meanwhile. In particular A setting bit 0 high and B setting bit 1 high on a
\* port holding 0 end with 0b00000011.
C1_NoLostUpdate ==
    \A c \in CallIds :
        (/\ Call(c).op = "set_value" /\ Call(c).status = "ok"
         /\ \A e \in CallIds \ {c} :
               (Call(e).op = "set_value" /\ Mask(Call(e).num) = Mask(Call(c).num))
               => (TxOf(c) # {} /\ Before(e, c)))
        => OutLevel(Call(c).num % 8) = Call(c).value

\* C1 witness: A has set bit 0 high and B bit 1 high, both have returned, and
\* the port holds 0b00000011
C1_Witness ==
    /\ \A t \in Threads : pc[t] = "idle" /\ Len(hist[t]) = 1
    /\ \A t \in Threads : Call(<<t, 1>>).op = "set_value" /\ Call(<<t, 1>>).status = "ok"
    /\ \A t \in Threads : Call(<<t, 1>>).value = "High" /\ WritesOf(<<t, 1>>) # {}
    /\ Call(<<"A", 1>>).num = 0 /\ Call(<<"B", 1>>).num = 1
    /\ regs[GPIOA] = 3

\* C2: a call holds the lock from before its first transaction until after
\* its last one (a thread between lock() and its return is the holder), and
\* the transactions of one call are contiguous on the bus: no transaction of
\* another call lies between two of them.
C2_CriticalSection ==
    /\ \A t \in Threads : pc[t] \in {"read", "read2", "write", "ret"} => lock = t
    /\ \A i, k \in CallTx :
          (i < k /\ bus[i].by = bus[k].by) => \A j \in i..k : bus[j].by = bus[i].by

\* C2 witness: B is between the read and the write of a set_value while A,
\* having called an operation, waits for the lock
C2_Witness ==
    /\ pc["B"] = "write" /\ lock = "B" /\ pc["A"] = "lock"
    /\ ReadsOf(CurId("B")) # {} /\ TxOf(CurId("A")) = {}

\* two set_value calls in succession for the same pin and value: no other
\* call has changed the port (written it successfully) in between
InSuccession(c, d) ==
    /\ c # d
    /\ Call(c).op = "set_value" /\ Call(d).op = "set_value"
    /\ Call(c).num = Call(d).num /\ Call(c).value = Call(d).value
    /\ TxOf(c) # {} /\ TxOf(d) # {} /\ Before(c, d)
    /\ \A e \in CallIds \ {c, d} :
          (\E i \in WritesOf(e) : bus[i].ok) => Before(e, c) \/ Before(d, e)

\* C5: set_value is idempotent on the wire. Counting write transactions
\* against a transport that carries out the first call (every transaction of
\* that call succeeds): of two set_value calls in succession for the same pin
\* and value, with no other call changing the port in between, the second
\* issues no write transaction and the two together at most one.
C5_SecondSetIsSilent ==
    \A c, d \in CallIds :
        (InSuccession(c, d) /\ \A i \in TxOf(c) : bus[i].ok)
        => WritesOf(d) = {} /\ Cardinality(WritesOf(c) \cup WritesOf(d)) <= 1

\* C5 witness: thread A has set output(1) high twice; the first call wrote
\* the port, the second only read it
C5_Witness ==
    /\ pc["A"] = "idle" /\ Len(hist["A"]) = 2
    /\ \A k \in 1..2 :
          /\ Call(<<"A", k>>).op = "set_value" /\ Call(<<"A", k>>).status = "ok"
          /\ Call(<<"A", k>>).num = 1 /\ Call(<<"A", k>>).value = "High"
    /\ Cardinality(WritesOf(<<"A", 1>>)) = 1
    /\ ReadsOf(<<"A", 2>>) # {} /\ WritesOf(<<"A", 2>>) = {}

\* ------------------------------------------------------------ one pin
\* C3: for every bit 0-7 and both levels, a read_value that succeeds after a
\* successful set_value(v) on the same pin, no other set_value having
\* addressed that line in between, returns v.
C3_ReadBack ==
    \A c, d \in CallIds :
        (/\ Call(c).op = "set_value" /\ Call(c).status = "ok"
         /\ Call(d).op = "read_value" /\ Call(d).status = "ok"
         /\ Call(c).label = Call(d).label /\ Call(c).num = Call(d).num
         /\ Call(c).num \in 0..7
         /\ Before(c, d)
         /\ \A e \in CallIds \ {c} :
               (Call(e).op = "set_value" /\ Mask(Call(e).num) = Mask(Call(c).num))
               => Before(e, c) \/ Before(d, e))
        => Call(d).result = <<Call(c).value>>

\* C3 witness: on a port holding 0xFF, set_value(Low) on output(7) wrote 0x7F
\* and the read_value that followed returned Low
C3_Witness ==
    /\ pc["A"] = "idle" /\ Len(hist["A"]) = 2 /\ regs[GPIOA] = 127
    /\ Call(<<"A", 1>>).op = "set_value" /\ Call(<<"A", 1>>).status = "ok"
    /\ Call(<<"A", 1>>).num = 7 /\ Call(<<"A", 1>>).value = "Low"
    /\ Call(<<"A", 1>>).did_read = 255 /\ WritesOf(<<"A", 1>>) # {}
    /\ Call(<<"A", 2>>).op = "read_value" /\ Call(<<"A", 2>>).label = "Out"
    /\ Call(<<"A", 2>>).num = 7 /\ Call(<<"A", 2>>).result = <<"Low">>

\* the steps thread t takes inside a set_value call
SetValueSteps(t) ==
    /\ pc[t] \in {"lock", "read", "write", "ret"}
    /\ Cur(t).op = "set_value"
    /\ pc'[t] # pc[t]

\* C4: mask isolation. No step of a set_value call on bit i changes any other
\* bit j of its port, or any other register of the chip (the other port's
\* data register among them), whatever byte the port holds.
C4_MaskIsolation ==
    [][\A t \in Threads :
          SetValueSteps(t) =>
              /\ \A j \in 0..7 :
                    j # Cur(t).num % 8 => Bit(regs'[GPIOA], j) = Bit(regs[GPIOA], j)
              /\ \A r \in Registers \ {GPIOA} : regs'[r] = regs[r]]_vars

\* C4 witness: on a port holding 0xA5, set_value(Low) on output(2) has
\* written 0xA1: bit 2 is cleared and bits 0, 5 and 7 are still set
C4_Witness ==
    /\ pc["A"] = "ret" /\ regs[GPIOA] = 161 /\ regs[GPIOB] = 165
    /\ Cur("A").op = "set_value" /\ Cur("A").status = "ok"
    /\ Cur("A").num = 2 /\ Cur("A").value = "Low" /\ Cur("A").did_read = 165
    /\ WritesOf(CurId("A")) # {}

\* ------------------------------------------------------------ construction
\* C6: a successful Expander::new has issued exactly four transactions, all
\* writes: 0x12 := 0x00, 0x00 := 0x00, 0x01 := 0xFF, 0x0D := 0xFF, in this
\* order; it issues no read and no other write.
C6_InitSequence ==
    ctor = "ok" =>
        /\ TxOf(NewId) = 1..4
        /\ [i \in 1..4 |-> <<bus[i].rw, bus[i].tx, bus[i].ok>>] =
              << <<"write", <<64, 18, 0>>, TRUE>>,
                 <<"write", <<64, 0, 0>>, TRUE>>,
                 <<"write", <<64, 1, 255>>, TRUE>>,
                 <<"write", <<64, 13, 255>>, TRUE>> >>

\* C6 witness: the handle has just been returned
C6_Witness ==
    /\ ctor = "ok" /\ Len(bus) = 4
    /\ regs = [r \in Registers |->
                  IF r = GPIOB THEN 165 ELSE IF r \in {IODIRB, GPPUB} THEN 255 ELSE 0]

\* C7: when open, configure or the k-th initialization write fails, the
\* constructor ends in the error with the failed step as its last bus
\* transaction (none of the later writes is issued) and no call is ever made;
\* and no call issues a transaction unless the four initialization writes
\* succeeded before it.
C7_AbortOnFailure ==
    /\ ctor = "err" =>
          /\ Len(bus) <= 4
          /\ \A i \in 1..Len(bus) :
                /\ bus[i].by = NewId /\ bus[i].rw = "write"
                /\ bus[i].ok <=> i < Len(bus)
          /\ \A t \in Threads : hist[t] = <<>> /\ pc[t] = "idle"
          /\ ~ENABLED Next
    /\ ctor # "ok" => \A t \in Threads : hist[t] = <<>>
    /\ \A i \in CallTx :
          i > 4 /\ \A k \in 1..4 : bus[k].by = NewId /\ bus[k].ok

\* C7 witness: the third initialization write failed
C7_Witness == ctor = "err" /\ Len(bus) = 3

\* C8: after a successful construction and before any call has written to the
\* chip, output_byte returns 0 and read_value on an Output view returns Low
\* (for the calls that return a value: a failed read returns the error).
C8_OutputsStartLow ==
    \A c \in CallIds :
        (/\ Call(c).status = "ok" /\ Call(c).label = "Out"
         /\ Call(c).op \in {"output_byte", "read_value"}
         /\ \A i \in CallTx : bus[i].rw = "write" => \A j \in TxOf(c) : j < i)
        => Call(c).result = IF Call(c).op = "output_byte" THEN <<0>> ELSE <<"Low">>

\* C8 witness: the first two calls on a new handle were output_byte and
\* read_value on output(1), and returned 0 and Low
C8_Witness ==
    /\ Len(bus) = 6 /\ \A i \in 1..6 : bus[i].ok
    /\ \E c, d \in CallIds :
          /\ Returned(c) /\ Returned(d)
          /\ Call(c).op = "output_byte" /\ Call(c).result = <<0>>
          /\ Call(d).op = "read_value" /\ Call(d).label = "Out" /\ Call(d).num = 1
          /\ Call(d).result = <<"Low">>

\* C9: when the read transaction of output_byte, input_byte, read_value or
\* set_value fails, the call ends with the error and that read is the only
\* transaction it ever issues: no write follows it.
C9_ReadFailurePropagates ==
    \A c \in CallIds :
        Call(c).op # "fmt" =>
            \A i \in ReadsOf(c) :
                ~bus[i].ok => Call(c).status = "err" /\ TxOf(c) = {i}

\* C9 witness: a set_value that would have had to write (High on a low line)
\* has returned the error of its failed read, port A untouched
C9_Witness ==
    \E c \in CallIds :
        /\ Call(c).op = "set_value" /\ Call(c).value = "High" /\ Call(c).num = 0
        /\ Returned(c) /\ Call(c).status = "err"
        /\ \E i \in ReadsOf(c) : ~bus[i].ok
        /\ regs[GPIOA] = 0

\* C10: once the handle exists, every write transaction a call issues targets
\* data-A (0x12); the direction and pull-up registers keep the values the
\* constructor gave them (direction-A 0x00, direction-B 0xFF, pull-up-B 0xFF)
\* and data-B is never written.
C10_DirectionFixed ==
    /\ \A i \in CallTx : bus[i].rw = "write" => bus[i].tx[1] = 64 /\ bus[i].tx[2] = 18
    /\ ctor = "ok" => regs[0] = 0 /\ regs[1] = 255 /\ regs[13] = 255 /\ regs[19] = 165

\* C10 witness: both threads have written to the chip after construction
C10_Witness ==
    \E i, j \in CallTx :
        /\ bus[i].rw = "write" /\ bus[j].rw = "write" /\ bus[i].ok /\ bus[j].ok
        /\ bus[i].by[1] = "A" /\ bus[j].by[1] = "B"

\* ------------------------------------------------------------ wire format
\* the port a transaction of a call addresses: the view's port, and for
\* Debug::fmt port In in its first transaction, port Out in its second
PortOf(i) ==
    IF Call(bus[i].by).op # "fmt" THEN Call(bus[i].by).label
    ELSE IF \A j \in 1..(i - 1) : bus[j].by # bus[i].by THEN "In" ELSE "Out"

\* C11: every bus transaction is exactly 3 bytes: byte 0 is 0x40 for a write
\* and 0x41 for a read, byte 1 is a register address (0x12 for port Out, 0x13
\* for port In in every transaction of a call), byte 2 is the data byte of a
\* write and 0 in a read; a successful read has a 3-byte reply, and the value
\* the call uses or returns is the third byte of that reply.
C11_FrameFormat ==
    \A i \in 1..Len(bus) :
        LET e == bus[i] IN
        /\ Len(e.tx) = 3
        /\ e.tx[1] = (IF e.rw = "write" THEN 64 ELSE 65)
        /\ e.tx[2] \in {0, 1, 13, 18, 19}
        /\ e.tx[3] \in 0..255
        /\ e.rw = "read" => e.tx[3] = 0 /\ (e.ok => Len(e.rx) = 3)
        /\ e.by # NewId =>
              LET c == Call(e.by) IN
              /\ e.tx[2] = (IF PortOf(i) = "Out" THEN 18 ELSE 19)
              /\ e.rw = "write" => e.tx[3] = c.to_write
              /\ (e.rw = "read" /\ e.ok) =>
                    /\ c.op # "fmt" => c.did_read = e.rx[3]
                    /\ c.op \in {"output_byte", "input_byte"} => c.result = <<e.rx[3]>>
                    /\ (c.op = "fmt" /\ PortOf(i) = "In") => c.in_byte = to_string(e.rx[3])

\* C11 witness: input_byte has returned 0xA5 from the frame 41 13 00, whose
\* reply carried 0xA5 in its third byte, and set_value(High) on output(0) has
\* sent the frame 40 12 01
C11_Witness ==
    \E c, d \in CallIds : \E i \in ReadsOf(c), j \in WritesOf(d) :
        /\ Call(c).op = "input_byte" /\ Call(c).result = <<165>>
        /\ bus[i].tx = <<65, 19, 0>> /\ bus[i].rx[3] = 165
        /\ Call(d).op = "set_value" /\ bus[j].tx = <<64, 18, 1>> /\ bus[j].ok

\* ------------------------------------------------------------ conversion
\* d is a read_value on the companion Input view of the Output view c was
\* called on
OnCompanion(c, d) ==
    /\ Call(c).op = "read_value" /\ Call(c).view = "Output"
    /\ Call(d).op = "read_value" /\ Call(d).view = "InputOfOutput"
    /\ Call(d).num = Call(c).num

\* C12: the companion Input view of an Output view is bound to the same port
\* and bit, and making it issues no bus transaction (every transaction on the
\* bus after construction is the one read of some call); a read_value on the
\* companion and a read_value on the Output view, both successful and with no
\* write to the chip between them, return the same value.
C12_CompanionReadsSame ==
    /\ \A i \in 1..Len(bus) : bus[i].by = NewId \/ bus[i].by \in CallIds
    /\ \A c, d \in CallIds :
          OnCompanion(c, d) =>
             /\ Cardinality(TxOf(d)) <= 1
             /\ \A j \in TxOf(d) : bus[j].rw = "read" /\ bus[j].tx[2] = 18
             /\ (/\ Call(c).status = "ok" /\ Call(d).status = "ok"
                 /\ \A e \in CallIds : \A w \in WritesOf(e) :
                        (\A i \in TxOf(c) \cup TxOf(d) : w < i)
                        \/ (\A i \in TxOf(c) \cup TxOf(d) : i < w))
                => Call(d).result = Call(c).result

\* C12 witness: on a port holding 0xA5, read_value on output(2) and then on
\* its companion both returned High, each with one read of register 0x12
C12_Witness ==
    /\ pc["A"] = "idle" /\ Len(hist["A"]) = 2 /\ regs[GPIOA] = 165
    /\ OnCompanion(<<"A", 1>>, <<"A", 2>>) /\ Call(<<"A", 1>>).num = 2
    /\ Call(<<"A", 1>>).result = <<"High">> /\ Call(<<"A", 2>>).result = <<"High">>
    /\ Len(bus) = 6 /\ bus[6].tx = <<65, 18, 0>> /\ bus[6].by = <<"A", 2>>

\* ------------------------------------------------------------ set_value
\* the bit a level stands for
LevelBit(value) == IF value = "High" THEN 1 ELSE 0

\* C13: for every bit 0-7, every port byte b and both values, set_value
\* issues one read of register 0x12 and then, b being the byte read, a write
\* if and only if bit i of b differs from the requested level; the byte
\* written is b with exactly bit i changed (b - 2^i for Low, b + 2^i for
\* High). It never issues more than two transactions, never two reads or two
\* writes, and never a write before the read.
C13_ReadThenWriteIfChanged ==
    \A c \in CallIds :
        (Call(c).op = "set_value" /\ Call(c).num \in 0..7) =>
            /\ Cardinality(ReadsOf(c)) <= 1 /\ Cardinality(WritesOf(c)) <= 1
            /\ Call(c).status \in {"ok", "err"} => Cardinality(ReadsOf(c)) = 1
            /\ \A i \in ReadsOf(c) : bus[i].tx = <<65, 18, 0>>
            /\ \A j \in WritesOf(c) : \E i \in ReadsOf(c) : i < j /\ bus[i].ok
            /\ \A i \in ReadsOf(c) :
                  bus[i].ok =>
                     LET b == bus[i].rx[3]
                         differs == Bit(b, Call(c).num) # LevelBit(Call(c).value)
                     IN  /\ Call(c).status \in {"ok", "err"}
                               => (WritesOf(c) # {} <=> differs)
                         /\ pc[c[1]] = "write" => differs
                         /\ \A j \in WritesOf(c) :
                               /\ bus[j].tx[2] = 18
                               /\ bus[j].tx[3] =
                                     (IF Call(c).value = "Low"
                                      THEN b - Pow2(Call(c).num)
                                      ELSE b + Pow2(Call(c).num))
                               /\ \A k \in 0..7 :
                                     Bit(bus[j].tx[3], k) =
                                        (IF k = Call(c).num THEN LevelBit(Call(c).value)
                                         ELSE Bit(b, k))

\* C13 witness: on a port holding 0x25, set_high on bit 7 read 0x25 and wrote
\* 0xA5, in two transactions
C13_Witness ==
    /\ pc["A"] = "idle" /\ regs[GPIOA] = 165 /\ Len(bus) = 6
    /\ Call(<<"A", 1>>).op = "set_value" /\ Call(<<"A", 1>>).status = "ok"
    /\ Call(<<"A", 1>>).num = 7 /\ Call(<<"A", 1>>).value = "High"
    /\ bus[5].rw = "read" /\ bus[5].rx[3] = 37
    /\ bus[6].rw = "write" /\ bus[6].tx = <<64, 18, 165>>

\* ------------------------------------------------------------ reads
\* a step thread t takes in a read_value, output_byte or input_byte call,
\* from entering it to returning from it
ReadOnlySteps(t) ==
    /\ pc'[t] # pc[t]
    /\ hist'[t] # <<>>
    /\ hist'[t][Len(hist'[t])].op \in {"read_value", "output_byte", "input_byte"}

\* C14: read_value, output_byte and input_byte leave every chip register
\* unchanged in every step; their one transaction is the read 41 <reg> 00 of
\* their port's data register, and they return having issued exactly that one
\* transaction. The value of output_byte / input_byte is the byte read;
\* read_value on bit i (0-7) returns High if bit i of the byte read is 1 and
\* Low if it is 0.
C14_ReadOnly ==
    [][\A t \in Threads :
          ReadOnlySteps(t) =>
             LET c == hist'[t][Len(hist'[t])]
                 reg == IF c.label = "Out" THEN 18 ELSE 19
             IN
             /\ regs' = regs
             /\ pc[t] # "read" => bus' = bus
             /\ pc[t] = "read" =>
                   /\ TxOf(CurId(t)) = {}
                   /\ Len(bus') = Len(bus) + 1 /\ SubSeq(bus', 1, Len(bus)) = bus
                   /\ LET e == bus'[Len(bus')] IN
                      /\ e.rw = "read" /\ e.tx = <<65, reg, 0>> /\ e.by = CurId(t)
                      /\ e.ok => /\ c.status = "ok"
                                 /\ c.op # "read_value" => c.result = <<e.rx[3]>>
                                 /\ (c.op = "read_value" /\ c.num \in 0..7) =>
                                       c.result = <<IF Bit(e.rx[3], c.num) = 1
                                                    THEN "High" ELSE "Low">>
                      /\ ~e.ok => c.status = "err" /\ c.result = <<>>
             /\ pc[t] = "ret" =>
                   /\ Cardinality(TxOf(CurId(t))) = 1
                   /\ \A i \in TxOf(CurId(t)) : bus[i].rw = "read"]_vars

\* C14 witness: with the input lines at 0xA5 and port Out holding 0x5A,
\* read_value on input(5) has returned High after one read of register 0x13,
\* and the registers are as they were
C14_Witness ==
    /\ pc["A"] = "idle" /\ Len(bus) = 5 /\ regs[GPIOB] = 165 /\ regs[GPIOA] = 90
    /\ Call(<<"A", 1>>).op = "read_value" /\ Call(<<"A", 1>>).label = "In"
    /\ Call(<<"A", 1>>).num = 5 /\ Call(<<"A", 1>>).result = <<"High">>
    /\ bus[5].tx = <<65, 19, 0>> /\ bus[5].rx[3] = 165

\* ------------------------------------------------------------ failures
\* call d starts its transactions after transaction j
After(j, d) == TxOf(d) # {} /\ \A i \in TxOf(d) : j < i

\* C15: no transaction is retried: no call repeats a frame that failed, and a
\* set_value whose write fails ends with the error, its transactions being
\* that one write attempt and the successful read before it - no second
\* attempt and no write restoring the port. A read_value or set_value that
\* comes later and succeeds has read the chip itself: the byte it used is the
\* one its own read returned, its result is that byte's bit, a set_value
\* writes exactly when that bit differs from the level asked for, and as long
\* as no other call wrote in between it reads the byte the failed call read.
C15_NoRetry ==
    /\ \A i, k \in 1..Len(bus) :
          (i < k /\ bus[i].by = bus[k].by /\ ~bus[i].ok) => bus[k].tx # bus[i].tx
    /\ \A c \in CallIds : \A j \in WritesOf(c) :
          ~bus[j].ok =>
             /\ Call(c).status = "err"
             /\ TxOf(c) = {j - 1, j}
             /\ bus[j - 1].rw = "read" /\ bus[j - 1].ok
             /\ \A d \in CallIds :
                   (/\ After(j, d) /\ Call(d).status = "ok"
                    /\ Call(d).op \in {"read_value", "set_value"})
                   => /\ Cardinality(ReadsOf(d)) = 1
                      /\ \A i \in ReadsOf(d) :
                            /\ bus[i].ok /\ Call(d).did_read = bus[i].rx[3]
                            /\ (/\ Call(d).label = Call(c).label
                                /\ \A w \in (j + 1)..i : bus[w].rw = "read" \/ ~bus[w].ok)
                                  => Call(d).did_read = Call(c).did_read
                      /\ Call(d).op = "read_value" =>
                            Call(d).result =
                               <<IF Bit(Call(d).did_read, Call(d).num % 8) = 1
                                 THEN "High" ELSE "Low">>
                      /\ Call(d).op = "set_value" =>
                            (WritesOf(d) # {} <=>
                                Bit(Call(d).did_read, Call(d).num % 8)
                                   # LevelBit(Call(d).value))

\* C15 witness: set_value(High) on output(0) failed in its write, leaving the
\* port at 0; the same call made again read 0 once more, wrote 0x01 and
\* returned Ok
C15_Witness ==
    /\ Len(bus) = 8 /\ regs[GPIOA] = 1
    /\ bus[5].rw = "read" /\ bus[6].rw = "write" /\ ~bus[6].ok
    /\ bus[6].tx = <<64, 18, 1>> /\ bus[5].by = bus[6].by
    /\ Call(bus[6].by).status = "err" /\ Call(bus[6].by).num = 0
    /\ bus[7].rw = "read" /\ bus[7].rx[3] = 0
    /\ bus[8].tx = <<64, 18, 1>> /\ bus[8].ok /\ bus[7].by = bus[8].by
    /\ Call(bus[8].by).status = "ok" /\ Returned(bus[8].by)

\* ------------------------------------------------------------ Debug
\* what the snapshot shows for a read: the byte in decimal, or the sentinel
ShownOnBus(i) ==
    IF bus[i].ok THEN to_string(bus[i].rx[3]) ELSE <<"N", "O", "N", "E">>

\* what a Debug formatting call c does on the bus and returns
SnapshotReads(c) ==
    /\ Call(c).status # "err"
    /\ WritesOf(c) = {}
    /\ Cardinality(TxOf(c)) <= 2
    /\ \A i \in TxOf(c) :
          bus[i].tx = <<65, IF i - 1 \in TxOf(c) THEN 18 ELSE 19, 0>>
    /\ \A i, k \in TxOf(c) : k \in {i - 1, i, i + 1}
    /\ Call(c).status \in {"fmt_error", "sink_panic", "in_sink"} =>
          /\ Cardinality(TxOf(c)) = 2
          /\ Call(c).result = <<>>
    /\ Call(c).status = "ok" =>
          \E i \in TxOf(c) :
             /\ TxOf(c) = {i, i + 1}
             /\ Call(c).result =
                   << <<"{", " ", "I", "n", ":", " ">> \o ShownOnBus(i)
                      \o <<",", " ", "O", "u", "t", ":", " ">>
                      \o ShownOnBus(i + 1) \o <<" ", "}">> >>
    /\ Returned(c) =>
          /\ (c = CurId(c[1]) /\ pc[c[1]] = "idle") => lock # c[1]
          /\ \A d \in CallIds :
                (d # c /\ \A i \in TxOf(c) : After(i, d))
                => (Call(d).status = "err" => \E k \in TxOf(d) : ~bus[k].ok)

\* a thread inside Debug formatting, from its first read on, holds the lock
SnapshotHoldsLock ==
    \A t \in Threads :
        (pc[t] \in {"read", "read2", "ret"} /\ Cur(t).op = "fmt") => lock = t

\* thread t is inside the sink of a snapshot: in write_str for good, or at
\* the lock() of the call the sink made on the handle
InSink(t) ==
    \/ pc[t] = "sink" /\ Cur(t).op = "fmt" /\ Cur(t).status = "in_sink"
    \/ /\ pc[t] = "lock" /\ Len(hist[t]) > 1
       /\ hist[t][Len(hist[t]) - 1].op = "fmt"
       /\ hist[t][Len(hist[t]) - 1].status = "in_sink"

\* C16: Debug formatting never ends with a read error (the only error it can
\* return is fmt::Error, when the Formatter's sink refuses the text, after
\* both reads whether or not they failed). It takes the lock once and holds
\* it from its first read to its end; its transactions are two reads next to
\* each other on the bus - register 0x13 (In), then 0x12 (Out) - and no
\* write; the Out read follows also when the In read failed; the line it
\* writes is "{ In: x, Out: y }" with, independently for each read, the byte
\* in decimal or NONE when that read failed. A failed read never makes the
\* handle unusable: a snapshot that returns leaves the lock free, a later
\* call fails only if a transaction of its own fails, the mutex is poisoned
\* only by a panic (of the sink, after both reads, or of the shift in
\* set_value), and the lock stays held by a thread outside a call's own
\* steps only while that thread is inside the sink, after both reads.
C16_SnapshotAbsorbsErrors ==
    /\ SnapshotHoldsLock
    /\ poisoned =>
          \E e \in CallIds :
             \/ Call(e).op = "set_value" /\ Call(e).status = "panic"
             \/ Call(e).op = "fmt" /\ Call(e).status = "sink_panic"
                   /\ Cardinality(TxOf(e)) = 2
    /\ \A t \in Threads :
          (lock = t /\ pc[t] \notin {"read", "read2", "write", "ret"}) => InSink(t)
    /\ \A c \in CallIds : Call(c).op = "fmt" => SnapshotReads(c)

\* C16 witness: a snapshot whose In read failed returned "{ In: NONE, Out: 0 }"
\* after both reads, and the input_byte that followed returned 0xA5
C16_Witness ==
    \E c, d \in CallIds :
        /\ Call(c).op = "fmt" /\ Returned(c) /\ TxOf(c) = {5, 6}
        /\ ~bus[5].ok /\ bus[6].ok
        /\ Call(c).result =
              << <<"{", " ", "I", "n", ":", " ", "N", "O", "N", "E", ",", " ",
                   "O", "u", "t", ":", " ", "0", " ", "}">> >>
        /\ Call(d).op = "input_byte" /\ Returned(d) /\ TxOf(d) = {7}
        /\ Call(d).result = <<165>>

\* ------------------------------------------------------------ pin index
\* C17 as claimed: output(n) and input(n) hand out views for any index, and
\* read_value and set_value on a view whose index is above 7 never abort:
\* they use the mask 1 << (n mod 8), so that read_value returns the level of
\* that bit and set_value changes that bit, and afterwards the lock is free
\* and not poisoned by them: no call panics in the shift, and the mutex is
\* never poisoned by an operation of a view (only a panicking Formatter sink
\* in Debug::fmt can poison it).
C17_AsClaimed ==
    /\ poisoned => \E e \in CallIds : Call(e).status = "sink_panic"
    /\ \A c \in CallIds :
          /\ Call(c).status # "panic"
          /\ (Call(c).num > 7 /\ Call(c).status = "ok") =>
                /\ Call(c).op = "read_value" =>
                      Call(c).result =
                         <<IF Bit(Call(c).did_read, Call(c).num % 8) = 1
                           THEN "High" ELSE "Low">>
                /\ Call(c).op = "set_value" =>
                      /\ Bit(Call(c).to_write, Call(c).num % 8) = LevelBit(Call(c).value)
                      /\ \A k \in 0..7 \ {Call(c).num % 8} :
                            Bit(Call(c).to_write, k) = Bit(Call(c).did_read, k)
                /\ (c = CurId(c[1]) /\ pc[c[1]] = "idle") => lock # c[1]

\* ------------------------------------------------------------ progress
\* thread t waits in lock() for a mutex that is held
Waiting(t) == pc[t] = "lock" /\ lock # "free"

\* C18 as claimed: with transport calls that return and a fair lock, every
\* call a thread has invoked - read_value, set_value, output_byte, input_byte
\* or Debug formatting - eventually completes. Stated in the claim's favour:
\* a call that ends by panic counts as ended, and behaviours in which a sink
\* never returns for a reason of its own are left out; what remains is that
\* no call waits in lock() for ever.
C18_AsClaimed ==
    \A t \in Threads :
        (pc[t] # "idle") ~>
            (pc[t] \in {"idle", "panicked"} \/ \E u \in Threads : pc[u] = "sink")

\* C18 witness: A's snapshot has made both reads and its sink has called back
\* into the handle: A waits in lock() for the mutex it holds itself, and B,
\* having called read_value, waits for it too
C18_Witness ==
    /\ lock = "A" /\ InSink("A") /\ Waiting("A")
    /\ Cardinality(TxOf(<<"A", Len(hist["A"]) - 1>>)) = 2
    /\ Waiting("B") /\ Cur("B").op = "read_value" /\ TxOf(CurId("B")) = {}

====
